---- MODULE Spec2Model ----
(***************************************************************************)
(* Model of the PdfEditor component (components/PdfEditor.tsx): the React  *)
(* state of the editor, its five effects, the upload / URL-load / render / *)
(* export asynchronous tasks and the overlay mutation handlers.            *)
(*                                                                         *)
(* Conventions                                                             *)
(*  - A URL stands for the document stored at it; an ArrayBuffer is        *)
(*    modelled by the URL whose bytes it holds.                            *)
(*  - Numbers that are fractions in the program (normalized x / y, PDF     *)
(*    points) are rationals <<n, d>> with d > 0 in lowest terms; the       *)
(*    product and the quotient of the coordinate conversion between a      *)
(*    normalized position and a pixel position are rounded (Fl).           *)
(*  - The upload endpoint (app/api/upload/route.ts) is the operator POST.  *)
(*  - One action is one handler invocation or one continuation of an       *)
(*    async function up to its next await, followed by the React commit    *)
(*    (re-render and effects) it causes.                                   *)
(*  - ev is the observable output of the last step (alerts raised,         *)
(*    download triggered, console errors) and the step's arguments.        *)
(***************************************************************************)
EXTENDS Integers, Sequences, FiniteSets, Bags, TLC

VARIABLES uploading, pdfUrl, pdfArrayBuffer, exportArrayBuffer, pdfDoc,
          numPages, pageSizes, overlays, rendering,
          painted, param, nav, ls,
          uploads, urlLoads, loads, exports,
          nextId, issued, lastMut, track, ev

vars == <<uploading, pdfUrl, pdfArrayBuffer, exportArrayBuffer, pdfDoc,
          numPages, pageSizes, overlays, rendering,
          painted, param, nav, ls,
          uploads, urlLoads, loads, exports,
          nextId, issued, lastMut, track, ev>>

----------------------------------------------------------------------------
(* Bounds of the exploration *)

MaxIds == 2
MaxTasks == 2

(* The world outside the editor *)

Null == "null"

Urls == {"a.pdf", "b.pdf"}

Size(w, h) == [width |-> w, height |-> h]

DocPages(u) ==
    IF u = "a.pdf" THEN <<Size(595, 842), Size(800, 600)>>
    ELSE <<Size(1500, 1000)>>

PageIdx == {0, 1}

FileTypes == {"application/pdf", "image/png"}
ContentTypes == {"application/pdf", "application/x-pdf", "image/png", ""}
TextInputs == {""}
ColorInputs == {"#ff0000"}
FontSizeInputs == {16}
DragPx == {<<-5, -7>>, <<0, 0>>, <<2000, 1200>>}
RangeAttempts == {4, 100}

----------------------------------------------------------------------------
(* Exact rational arithmetic *)

Abs(n) == IF n < 0 THEN -n ELSE n

RECURSIVE Gcd(_, _)
Gcd(a, b) == IF b = 0 THEN a ELSE Gcd(b, a % b)

Rat(n, d) ==
    LET g == Gcd(Abs(n), Abs(d))
        s == IF d < 0 THEN -1 ELSE 1
    IN  IF n = 0 THEN <<0, 1>> ELSE <<(s * n) \div g, (s * d) \div g>>

RInt(n) == <<n, 1>>
RMul(a, b) == Rat(a[1] * b[1], a[2] * b[2])
RSub(a, b) == Rat(a[1] * b[2] - b[1] * a[2], a[2] * b[2])
RLeq(a, b) == a[1] * b[2] <= b[1] * a[2]
RMax(a, b) == IF RLeq(a, b) THEN b ELSE a
RMin(a, b) == IF RLeq(a, b) THEN a ELSE b

RDiv(a, b) == Rat(a[1] * b[2], a[2] * b[1])
RNeg(a) == <<-a[1], a[2]>>

Half == <<1, 2>>

(* a Number keeps PREC significant bits (binary floating point, round to  *)
(* nearest, ties to even); the exponent range is not limited              *)
PREC == 8

ExpMax == 16

(* 2^k for k in 0 .. ExpMax + PREC *)
Pow2 ==
    [k \in 0 .. 24 |->
        <<1, 2, 4, 8, 16, 32, 64, 128, 256, 512, 1024, 2048, 4096, 8192,
          16384, 32768, 65536, 131072, 262144, 524288, 1048576, 2097152,
          4194304, 8388608, 16777216>>[k + 1]]

(* r * 2^k *)
RScale(r, k) ==
    IF k >= 0 THEN Rat(r[1] * Pow2[k], r[2]) ELSE Rat(r[1], r[2] * Pow2[-k])

(* r >= 2^k, for r > 0 *)
AtLeastPow2(r, k) ==
    IF k >= 0 THEN r[1] \div Pow2[k] >= r[2]
    ELSE r[1] >= (r[2] + Pow2[-k] - 1) \div Pow2[-k]

(* the e with 2^e <= r < 2^(e+1), for r > 0 *)
ExpOf(r) ==
    CHOOSE e \in -ExpMax .. ExpMax :
        AtLeastPow2(r, e) /\ ~AtLeastPow2(r, e + 1)

(* the floating-point number nearest to r, for r > 0 *)
FlPos(r) ==
    LET e == ExpOf(r)
        q == RScale(r, PREC - 1 - e)
        m == q[1] \div q[2]
        twice == 2 * (q[1] - m * q[2])
        up == twice > q[2] \/ (twice = q[2] /\ m % 2 = 1)
    IN  RScale(RInt(IF up THEN m + 1 ELSE m), e - PREC + 1)

(* the floating-point number nearest to r *)
Fl(r) ==
    IF r[1] = 0 THEN r
    ELSE IF r[1] < 0 THEN RNeg(FlPos(RNeg(r)))
         ELSE FlPos(r)

(* Math.round(w * 0.02) for an integer w: round half up of w / 50 *)
Round002(w) == (2 * w + 50) \div 100

IMax(a, b) == IF a >= b THEN a ELSE b
IMin(a, b) == IF a <= b THEN a ELSE b

----------------------------------------------------------------------------
(* Overlay collections: PageOverlays = Record<number, OverlayItem[]> *)

NoOverlays == [p \in {} |-> <<>>]

(* overlays[pageIndex] || [] *)
PageItems(ov, p) == IF p \in DOMAIN ov THEN ov[p] ELSE <<>>

(* { ...prev, [pageIndex]: items } *)
WithPage(ov, p, items) ==
    [q \in (DOMAIN ov) \cup {p} |-> IF q = p THEN items ELSE ov[q]]

ItemIds(items) == {items[k].id : k \in 1 .. Len(items)}

AllItems(ov) == UNION {{ov[p][k] : k \in 1 .. Len(ov[p])} : p \in DOMAIN ov}

(* getOverlaysStorageKey *)
getOverlaysStorageKey(url) == <<"overlays:", url>>

(* JSON.stringify(overlays): the object's integer keys in ascending order, *)
(* each as a string, with the array of items; an item is the list of its  *)
(* field values in field order.                                           *)
RECURSIVE SortedKeys(_)
SortedKeys(S) ==
    IF S = {} THEN <<>>
    ELSE LET m == CHOOSE x \in S : \A y \in S : x <= y
         IN  <<m>> \o SortedKeys(S \ {m})

ItemJson(o) == <<o.id, o.text, o.x, o.y, o.fontSize, o.color>>

JsonStringify(ov) ==
    LET ks == SortedKeys(DOMAIN ov)
    IN  [k \in 1 .. Len(ks) |->
            <<ToString(ks[k]),
              [j \in 1 .. Len(ov[ks[k]]) |-> ItemJson(ov[ks[k]][j])]>>]

ItemOfJson(t) ==
    [id |-> t[1], text |-> t[2], x |-> t[3], y |-> t[4],
     fontSize |-> t[5], color |-> t[6]]

KeyToIndex(s) == CHOOSE p \in 0 .. 9 : ToString(p) = s

JsonParse(raw) ==
    LET ks == {KeyToIndex(raw[k][1]) : k \in 1 .. Len(raw)}
        at(p) == CHOOSE k \in 1 .. Len(raw) : KeyToIndex(raw[k][1]) = p
    IN  [p \in ks |->
            [j \in 1 .. Len(raw[at(p)][2]) |-> ItemOfJson(raw[at(p)][2][j])]]

(* a stored value that is not JSON (a truncated text), and the test that  *)
(* JSON.parse does not throw on a value                                   *)
Garbage == << <<"{">> >>

IsJson(raw) == \A k \in 1 .. Len(raw) : Len(raw[k]) = 2

----------------------------------------------------------------------------
(* The React state as one record, and the commit that follows a state     *)
(* change: a render, then the effects whose dependencies changed, in      *)
(* declaration order, each seeing the values of that render; state set by *)
(* an effect takes part in the next render.                               *)

St ==
    [uploading |-> uploading, pdfUrl |-> pdfUrl,
     pdfArrayBuffer |-> pdfArrayBuffer, exportArrayBuffer |-> exportArrayBuffer,
     pdfDoc |-> pdfDoc, numPages |-> numPages, pageSizes |-> pageSizes,
     overlays |-> overlays, rendering |-> rendering, painted |-> painted,
     param |-> param, nav |-> nav, ls |-> ls, uploads |-> uploads,
     urlLoads |-> urlLoads, loads |-> loads, exports |-> exports]

Blank == <<>>

(* the page list is rendered, with one canvas per page, when pdfDoc is set *)
Displayed(s, p) == s.pdfDoc # Null /\ p < s.numPages

(* setCanvasRef: a canvas that leaves the page list is unmounted; the     *)
(* element mounted for that index later is a new, blank one               *)
setCanvasRef(s) ==
    [s EXCEPT !.painted =
        [p \in PageIdx |-> IF Displayed(s, p) THEN s.painted[p] ELSE Blank]]

(* effect 1: reflect the selected PDF in ?file= (router.replace is queued; *)
(* a later replace supersedes a pending one)                               *)
ReflectUrlEffect(c, a) ==
    IF c.pdfUrl # Null /\ c.param # c.pdfUrl
    THEN [a EXCEPT !.nav = c.pdfUrl]
    ELSE a

(* effect 2: load the PDF named by ?file=; setPdfUrl runs before the first *)
(* await, the fetch is left in flight                                      *)
LoadFromParamFires(c) == c.param # Null /\ c.param # c.pdfUrl

LoadFromParamEffect(c, a) ==
    IF LoadFromParamFires(c)
    THEN [a EXCEPT !.urlLoads = @ (+) SetToBag({c.param})]
    ELSE a

(* effect 3: restore the overlays stored for pdfUrl *)
RestoreFires(c) == c.pdfUrl # Null

(* a restore that ignores the stored record                               *)
RestoredNothing(c, a) == NoOverlays

(* JSON.parse(raw) throws; the catch logs and sets the empty collection *)
RestoredOverlays(c, a) ==
    LET key == getOverlaysStorageKey(c.pdfUrl)
    IN  IF key \in DOMAIN a.ls /\ IsJson(a.ls[key])
        THEN JsonParse(a.ls[key]) ELSE NoOverlays

(* a persist effect that writes nothing                                   *)
PersistEffectSkipped(c, a) == a

(* effect 4: persist the overlays of this render under the key of pdfUrl *)
PersistEffect(c, a) ==
    IF c.pdfUrl # Null
    THEN LET key == getOverlaysStorageKey(c.pdfUrl)
         IN  [a EXCEPT !.ls =
                 [k \in (DOMAIN a.ls) \cup {key} |->
                     IF k = key THEN JsonStringify(c.overlays) ELSE a.ls[k]]]
    ELSE a

(* effect 5: the cleanup of the previous run sets its cancelled flag, then *)
(* loadAndRender starts for the new bytes                                  *)
NewLoad(bytes) == [bytes |-> bytes, cancelled |-> FALSE, pc |-> "open", i |-> 0]

Cancel(l) == [l EXCEPT !.cancelled = TRUE]

CancelAll(B) ==
    [l \in {Cancel(k) : k \in BagToSet(B)} |->
        CopiesIn(l, B) + CopiesIn([l EXCEPT !.cancelled = FALSE], B)]

RenderEffect(c, a) ==
    IF c.pdfArrayBuffer # Null
    THEN [a EXCEPT !.loads = CancelAll(@) (+) SetToBag({NewLoad(c.pdfArrayBuffer)}),
                   !.rendering = TRUE]
    ELSE [a EXCEPT !.loads = CancelAll(@)]

AllDeps == {"pdfUrl", "searchParams", "overlays", "pdfArrayBuffer"}

(* one render and its effects; D is the set of changed dependencies *)
EffectsPass(c, D) ==
    LET a1 == IF {"pdfUrl", "searchParams"} \cap D # {}
              THEN ReflectUrlEffect(c, c) ELSE c
        f2 == {"pdfUrl", "searchParams"} \cap D # {} /\ LoadFromParamFires(c)
        a2 == IF f2 THEN LoadFromParamEffect(c, a1) ELSE a1
        f3 == "pdfUrl" \in D /\ RestoreFires(c)
        ov == IF f3 THEN RestoredOverlays(c, a2) ELSE c.overlays
        a4 == IF {"overlays", "pdfUrl"} \cap D # {}
              THEN PersistEffect(c, a2) ELSE a2
        a5 == IF "pdfArrayBuffer" \in D THEN RenderEffect(c, a4) ELSE a4
    IN  [s |-> [a5 EXCEPT !.pdfUrl = IF f2 THEN c.param ELSE c.pdfUrl,
                          !.overlays = ov],
         dirty |-> (IF f2 THEN {"pdfUrl"} ELSE {})
                   \cup (IF f3 THEN {"overlays"} ELSE {}),
         restored |-> f3]

RECURSIVE Commit(_, _)
Commit(s, D) ==
    IF D = {} THEN setCanvasRef(s)
    ELSE LET r == EffectsPass(setCanvasRef(s), D)
         IN  Commit(r.s, r.dirty)

(* whether the commit replaces the overlay collection by a restored one *)
RECURSIVE Restores(_, _)
Restores(s, D) ==
    IF D = {} THEN FALSE
    ELSE LET r == EffectsPass(setCanvasRef(s), D)
         IN  r.restored \/ Restores(r.s, r.dirty)

(* localStorage after each render-and-effects pass of the commit *)
RECURSIVE StoragePasses(_, _)
StoragePasses(s, D) ==
    IF D = {} THEN <<>>
    ELSE LET r == EffectsPass(setCanvasRef(s), D)
         IN  <<r.s.ls>> \o StoragePasses(r.s, r.dirty)

TaskCount(s) ==
    BagCardinality(s.uploads) + BagCardinality(s.loads)
    + BagCardinality(s.exports) + BagCardinality(s.urlLoads)

Install(s) ==
    /\ uploading' = s.uploading
    /\ pdfUrl' = s.pdfUrl
    /\ pdfArrayBuffer' = s.pdfArrayBuffer
    /\ exportArrayBuffer' = s.exportArrayBuffer
    /\ pdfDoc' = s.pdfDoc
    /\ numPages' = s.numPages
    /\ pageSizes' = s.pageSizes
    /\ overlays' = s.overlays
    /\ rendering' = s.rendering
    /\ painted' = s.painted
    /\ param' = s.param
    /\ nav' = s.nav
    /\ ls' = s.ls
    /\ uploads' = s.uploads
    /\ urlLoads' = s.urlLoads
    /\ loads' = s.loads
    /\ exports' = s.exports

----------------------------------------------------------------------------
(* Observable output of a step *)

Ev(by) ==
    [by |-> by, stale |-> FALSE, alerts |-> <<>>, download |-> <<>>,
     silent |-> FALSE, page |-> -1, id |-> -1, px |-> <<0, 0>>,
     absent |-> FALSE, entry |-> TRUE, response |-> <<>>, trip |-> <<>>,
     call |-> <<>>]

One(x) == SetToBag({x})

(* The component as mounted with ?file= equal to p and the given storage *)
Mounted(p, store) ==
    Commit([uploading |-> FALSE, pdfUrl |-> Null, pdfArrayBuffer |-> Null,
            exportArrayBuffer |-> Null, pdfDoc |-> Null, numPages |-> 0,
            pageSizes |-> <<>>, overlays |-> NoOverlays, rendering |-> FALSE,
            painted |-> [q \in PageIdx |-> Blank], param |-> p, nav |-> Null,
            ls |-> store, uploads |-> EmptyBag, urlLoads |-> EmptyBag,
            loads |-> EmptyBag, exports |-> EmptyBag],
           AllDeps)

InitAt(p, e) ==
    LET m == Mounted(p, [k \in {} |-> <<>>])
    IN  /\ uploading = m.uploading
        /\ pdfUrl = m.pdfUrl
        /\ pdfArrayBuffer = m.pdfArrayBuffer
        /\ exportArrayBuffer = m.exportArrayBuffer
        /\ pdfDoc = m.pdfDoc
        /\ numPages = m.numPages
        /\ pageSizes = m.pageSizes
        /\ overlays = m.overlays
        /\ rendering = m.rendering
        /\ painted = m.painted
        /\ param = m.param
        /\ nav = m.nav
        /\ ls = m.ls
        /\ uploads = m.uploads
        /\ urlLoads = m.urlLoads
        /\ loads = m.loads
        /\ exports = m.exports
        /\ nextId = 1
        /\ issued = {p} \ {Null}
        /\ lastMut = [u \in Urls |-> <<>>]
        /\ track = <<>>
        /\ ev = e

InitWith(p) == InitAt(p, Ev("mount"))

Init == \E p \in Urls \cup {Null} : InitWith(p)

(* A step: the handler's state changes s1, the commit for the changed     *)
(* dependencies D, and the step's output e                                *)
Step(s1, D, e) ==
    LET r == Commit(s1, D)
    IN  /\ TaskCount(r) <= MaxTasks
        /\ Install(r)
        /\ ev' = e

KeepTrack(s1, D) == track' = IF Restores(s1, D) THEN <<>> ELSE track

Ghosts(s1, D) ==
    /\ nextId' = nextId
    /\ issued' = issued
    /\ lastMut' = lastMut
    /\ KeepTrack(s1, D)

(* The page is opened again (reload, or the address typed with ?file=p):  *)
(* in-memory state is fresh, localStorage is kept                         *)
Reload(p) ==
    /\ Install(Mounted(p, ls))
    /\ ev' = Ev("reload")
    /\ nextId' = nextId
    /\ issued' = issued \cup ({p} \ {Null})
    /\ lastMut' = lastMut
    /\ track' = <<>>

----------------------------------------------------------------------------
(* POST /api/upload *)

(* formData.get("file"): no such field, a string field, or a File *)
NoFile == [kind |-> "none", type |-> ""]
StringField == [kind |-> "string", type |-> ""]
FileOf(type) == [kind |-> "file", type |-> type]

Requests == {NoFile, StringField} \cup {FileOf(type) : type \in ContentTypes}

(* contentType.includes("pdf") over the content types of the model *)
IncludesPdf(contentType) ==
    contentType \in {"application/pdf", "application/x-pdf"}

(* a JSON body as its key/value pairs *)
ErrorBody(message) == << <<"error", message>> >>

(* the handler without the content-type check                             *)
POSTAnyType(file, stores, u) ==
    IF file.kind # "file"
    THEN [status |-> 400, body |-> ErrorBody("No file provided"), stored |-> {}]
    ELSE IF ~stores
         THEN [status |-> 500, body |-> ErrorBody("Upload failed"), stored |-> {}]
         ELSE [status |-> 200, body |-> << <<"url", u>> >>, stored |-> {u}]

(* The route handler for the form field `file`; stores tells whether      *)
(* put() succeeds, and u is the URL the blob store gives the new blob     *)
POST(file, stores, u) ==
    IF file.kind # "file"
    THEN [status |-> 400, body |-> ErrorBody("No file provided"), stored |-> {}]
    ELSE LET contentType == IF file.type = "" THEN "application/octet-stream"
                            ELSE file.type
         IN  IF ~IncludesPdf(contentType)
             THEN [status |-> 400,
                   body |-> ErrorBody("Only PDF files are allowed"),
                   stored |-> {}]
             ELSE IF ~stores
                  THEN [status |-> 500, body |-> ErrorBody("Upload failed"),
                        stored |-> {}]
                  ELSE [status |-> 200, body |-> << <<"url", u>> >>,
                        stored |-> {u}]

(* A request to the endpoint from any client; the editor is not involved  *)
EndpointRequest(file, stores, u) ==
    /\ u \notin issued
    /\ LET r == POST(file, stores, u)
       IN  /\ Step(St, {}, [Ev("post") EXCEPT
                               !.response = <<[file |-> file, stores |-> stores,
                                               status |-> r.status,
                                               body |-> r.body]>>])
           /\ issued' = issued \cup r.stored
    /\ nextId' = nextId
    /\ lastMut' = lastMut
    /\ KeepTrack(St, {})

----------------------------------------------------------------------------
(* handleFileSelect *)

SelectRejected(type) ==
    /\ type # "application/pdf"
    /\ Step(St, {}, [Ev("selectRejected") EXCEPT
                        !.alerts = <<"Please upload a PDF file">>])
    /\ Ghosts(St, {})

SelectFile(type) ==
    /\ type = "application/pdf"
    /\ Step([St EXCEPT !.uploading = TRUE,
                       !.uploads = @ (+) One([pc |-> "post", url |-> Null])],
            {}, Ev("selectFile"))
    /\ Ghosts(St, {})

(* the POST is answered with the URL of the stored blob (addRandomSuffix: *)
(* a URL not issued before); setPdfUrl, then the bytes are fetched        *)
UploadResponseOk(t, u) ==
    /\ BagIn(t, uploads) /\ t.pc = "post"
    /\ u \notin issued
    /\ POST(FileOf("application/pdf"), TRUE, u).body = << <<"url", u>> >>
    /\ LET s1 == [St EXCEPT !.pdfUrl = u,
                            !.uploads = (@ (-) One(t))
                                        (+) One([pc |-> "fetch", url |-> u])]
           D == IF u # pdfUrl THEN {"pdfUrl"} ELSE {}
       IN  /\ Step(s1, D, Ev("uploadResponseOk"))
           /\ nextId' = nextId
           /\ issued' = issued \cup {u}
           /\ lastMut' = lastMut
           /\ KeepTrack(s1, D)

(* !res.ok or a rejected request: catch alerts, finally clears uploading *)
UploadResponseFail(t) ==
    /\ BagIn(t, uploads) /\ t.pc = "post"
    /\ LET s1 == [St EXCEPT !.uploading = FALSE, !.uploads = @ (-) One(t)]
       IN  /\ Step(s1, {}, [Ev("uploadResponseFail") EXCEPT
                               !.alerts = <<"Upload failed">>])
           /\ Ghosts(s1, {})

UploadFetchOk(t) ==
    /\ BagIn(t, uploads) /\ t.pc = "fetch"
    /\ LET s1 == [St EXCEPT !.pdfArrayBuffer = t.url,
                            !.exportArrayBuffer = t.url,
                            !.uploading = FALSE,
                            !.uploads = @ (-) One(t)]
       IN  /\ Step(s1, {"pdfArrayBuffer"}, Ev("uploadFetchOk"))
           /\ Ghosts(s1, {"pdfArrayBuffer"})

UploadFetchFail(t) ==
    /\ BagIn(t, uploads) /\ t.pc = "fetch"
    /\ LET s1 == [St EXCEPT !.uploading = FALSE, !.uploads = @ (-) One(t)]
       IN  /\ Step(s1, {}, [Ev("uploadFetchFail") EXCEPT
                               !.alerts = <<"Upload failed">>])
           /\ Ghosts(s1, {})

----------------------------------------------------------------------------
(* router.replace takes effect: useSearchParams returns the new ?file= *)

NavCommit ==
    /\ nav # Null
    /\ LET s1 == [St EXCEPT !.param = nav, !.nav = Null]
           D == IF nav # param THEN {"searchParams"} ELSE {}
       IN  /\ Step(s1, D, Ev("navCommit"))
           /\ Ghosts(s1, D)

(* the fetch started by the ?file= effect completes *)
UrlFetchOk(u) ==
    /\ BagIn(u, urlLoads)
    /\ LET s1 == [St EXCEPT !.pdfArrayBuffer = u, !.urlLoads = @ (-) One(u)]
       IN  /\ Step(s1, {"pdfArrayBuffer"}, Ev("urlFetchOk"))
           /\ Ghosts(s1, {"pdfArrayBuffer"})

UrlFetchFail(u) ==
    /\ BagIn(u, urlLoads)
    /\ LET s1 == [St EXCEPT !.urlLoads = @ (-) One(u)]
       IN  /\ Step(s1, {}, [Ev("urlFetchFail") EXCEPT
                               !.alerts = <<"Failed to load PDF from URL">>])
           /\ Ghosts(s1, {})

----------------------------------------------------------------------------
(* loadAndRender: one instance per change of pdfArrayBuffer *)

LoadEv(by, l) ==
    [Ev(by) EXCEPT !.stale = l.cancelled,
                   !.page = IF l.pc = "paint" THEN l.i - 1 ELSE -1]

(* a catch that is not followed by the finally block                      *)
LoadCatchNoFinally(by, l) ==
    LET s1 == [St EXCEPT !.loads = @ (-) One(l)]
    IN  /\ Step(s1, {}, [LoadEv(by, l) EXCEPT
                            !.alerts = <<"Failed to render PDF">>])
        /\ Ghosts(s1, {})

(* catch: console.error and alert; finally: clear rendering unless cancelled *)
LoadCatch(by, l) ==
    LET s1 == [St EXCEPT !.loads = @ (-) One(l),
                         !.rendering = IF l.cancelled THEN @ ELSE FALSE]
    IN  /\ Step(s1, {}, [LoadEv(by, l) EXCEPT
                            !.alerts = <<"Failed to render PDF">>])
        /\ Ghosts(s1, {})

(* getDocument resolves: a cancelled load returns, otherwise the document *)
(* and its page count are published and the size loop starts              *)
LoadOpenOk(l) ==
    /\ BagIn(l, loads) /\ l.pc = "open"
    /\ LET s1 == IF l.cancelled
                 THEN [St EXCEPT !.loads = @ (-) One(l)]
                 ELSE [St EXCEPT !.pdfDoc = l.bytes,
                                 !.numPages = Len(DocPages(l.bytes)),
                                 !.loads = (@ (-) One(l))
                                     (+) One([l EXCEPT !.pc = "sizes"])]
       IN  /\ Step(s1, {}, LoadEv("loadOpenOk", l))
           /\ Ghosts(s1, {})

LoadOpenFail(l) ==
    /\ BagIn(l, loads) /\ l.pc = "open"
    /\ LoadCatch("loadOpenFail", l)

(* the size loop: every getPage(i) has resolved (the loop changes no      *)
(* state and tests nothing between its awaits, so it is one step); a      *)
(* cancelled load returns, otherwise the sizes are published and painting *)
(* starts                                                                 *)
LoadSizeOk(l) ==
    /\ BagIn(l, loads) /\ l.pc = "sizes"
    /\ LET s1 == IF l.cancelled
                 THEN [St EXCEPT !.loads = @ (-) One(l)]
                 ELSE [St EXCEPT !.pageSizes = DocPages(l.bytes),
                                 !.loads = (@ (-) One(l))
                                     (+) One([l EXCEPT !.pc = "paint", !.i = 1])]
       IN  /\ Step(s1, {}, LoadEv("loadSizeOk", l))
           /\ Ghosts(s1, {})

LoadSizeFail(l) ==
    /\ BagIn(l, loads) /\ l.pc = "sizes"
    /\ LoadCatch("loadSizeFail", l)

(* page i of the paint loop is rendered into canvasRefs.current[i - 1];   *)
(* after the last page, finally clears rendering unless cancelled         *)
LoadPaintOk(l) ==
    /\ BagIn(l, loads) /\ l.pc = "paint"
    /\ LET n == Len(DocPages(l.bytes))
           pt == IF Displayed(St, l.i - 1)
                 THEN [painted EXCEPT ![l.i - 1] = <<l.bytes, l.i>>]
                 ELSE painted
           s1 == IF l.i < n
                 THEN [St EXCEPT !.painted = pt,
                                 !.loads = (@ (-) One(l))
                                     (+) One([l EXCEPT !.i = l.i + 1])]
                 ELSE [St EXCEPT !.painted = pt,
                                 !.loads = @ (-) One(l),
                                 !.rendering = IF l.cancelled THEN @ ELSE FALSE]
       IN  /\ Step(s1, {}, LoadEv("loadPaintOk", l))
           /\ Ghosts(s1, {})

LoadPaintFail(l) ==
    /\ BagIn(l, loads) /\ l.pc = "paint"
    /\ LoadCatch("loadPaintFail", l)

----------------------------------------------------------------------------
(* Overlay handlers *)

DefaultFontSize(sizes, pageIndex) ==
    IMax(12, IMin(24, IF pageIndex + 1 <= Len(sizes)
                      THEN Round002(sizes[pageIndex + 1].width)
                      ELSE 16))

NewOverlay(id, sizes, pageIndex) ==
    [id |-> id, text |-> "New Text", x |-> Half, y |-> Half,
     fontSize |-> DefaultFontSize(sizes, pageIndex), color |-> "#111827"]

(* an add that puts the new item first                                    *)
addTextOverlayFirst(ov, pageIndex, item) ==
    WithPage(ov, pageIndex, <<item>> \o PageItems(ov, pageIndex))

addTextOverlay(ov, pageIndex, item) ==
    WithPage(ov, pageIndex, Append(PageItems(ov, pageIndex), item))

(* a merge that puts the item back at the centre of its page              *)
MergeRecentred(o, partial) ==
    [f \in DOMAIN o |-> IF f \in DOMAIN partial THEN partial[f]
                        ELSE IF f \in {"x", "y"} THEN Half ELSE o[f]]

(* { ...o, ...partial } *)
Merge(o, partial) ==
    [f \in DOMAIN o |-> IF f \in DOMAIN partial THEN partial[f] ELSE o[f]]

(* a map that merges the fields into every item of the page              *)
updateOverlayEvery(ov, pageIndex, id, partial) ==
    LET items == PageItems(ov, pageIndex)
    IN  WithPage(ov, pageIndex,
            [k \in 1 .. Len(items) |-> Merge(items[k], partial)])

updateOverlay(ov, pageIndex, id, partial) ==
    LET items == PageItems(ov, pageIndex)
    IN  WithPage(ov, pageIndex,
            [k \in 1 .. Len(items) |->
                IF items[k].id = id THEN Merge(items[k], partial) ELSE items[k]])

(* a filter with the test inverted: keeps the named item only            *)
removeOverlayInverted(ov, pageIndex, id) ==
    WithPage(ov, pageIndex,
        SelectSeq(PageItems(ov, pageIndex), LAMBDA o : o.id = id))

removeOverlay(ov, pageIndex, id) ==
    WithPage(ov, pageIndex,
        SelectSeq(PageItems(ov, pageIndex), LAMBDA o : o.id # id))

(* size used by the page list: pageSizes[pageIndex] || { 595, 842 } *)
LayoutSize(sizes, pageIndex) ==
    IF pageIndex + 1 <= Len(sizes) THEN sizes[pageIndex + 1] ELSE Size(595, 842)

(* a clamp that forgets the upper bound                                   *)
Clamp01NoUpper(r) == RMax(RInt(0), r)

Clamp01(r) == RMin(RInt(1), RMax(RInt(0), r))

(* the position at which an overlay is laid out on its page *)
LayoutPosition(size, o) ==
    [left |-> Fl(RMul(o.x, RInt(size.width))),
     top |-> Fl(RMul(o.y, RInt(size.height)))]

(* a drag stop that divides both coordinates by the page width           *)
DragPartialAtByWidth(size, x, y) ==
    [x |-> Clamp01(Fl(RDiv(x, RInt(size.width)))),
     y |-> Clamp01(Fl(RDiv(y, RInt(size.width))))]

(* Draggable onStop: data.x / size.width and data.y / size.height, clamped *)
DragPartialAt(size, x, y) ==
    [x |-> Clamp01(Fl(RDiv(x, RInt(size.width)))),
     y |-> Clamp01(Fl(RDiv(y, RInt(size.height))))]

DragPartial(size, px) == DragPartialAt(size, RInt(px[1]), RInt(px[2]))

HasItem(ov, p, id) == id \in ItemIds(PageItems(ov, p))

(* track follows the item of the latest add: the sequence of its page     *)
(* before the add, whether it has been updated, and whether it has been   *)
(* removed; any other call on that page, and any call at all once it is   *)
(* removed, ends the tracking                                             *)
TrackUpdate(p, id) ==
    IF track = <<>> THEN track
    ELSE IF track[1].removed THEN <<>>
    ELSE IF track[1].page # p THEN track
    ELSE IF track[1].id = id THEN <<[track[1] EXCEPT !.updated = TRUE]>>
    ELSE <<>>

TrackRemove(p, id) ==
    IF track = <<>> THEN track
    ELSE IF track[1].removed THEN <<>>
    ELSE IF track[1].page # p THEN track
    ELSE IF track[1].id = id THEN <<[track[1] EXCEPT !.removed = TRUE]>>
    ELSE <<>>

Mutate(ov, e, tr) ==
    LET s1 == [St EXCEPT !.overlays = ov]
    IN  /\ Step(s1, {"overlays"}, e)
        /\ issued' = issued
        /\ lastMut' = IF pdfUrl # Null
                      THEN [lastMut EXCEPT ![pdfUrl] = <<ov>>]
                      ELSE lastMut
        /\ track' = tr

AddTextOverlay(p) ==
    /\ Displayed(St, p)
    /\ nextId <= MaxIds
    /\ nextId' = nextId + 1
    /\ Mutate(addTextOverlay(overlays, p, NewOverlay(nextId, pageSizes, p)),
              [Ev("add") EXCEPT !.page = p, !.id = nextId],
              <<[id |-> nextId, page |-> p, before |-> PageItems(overlays, p),
                 updated |-> FALSE, removed |-> FALSE]>>)

UpdateEv(by, p, id) ==
    [Ev(by) EXCEPT !.page = p, !.id = id, !.absent = ~HasItem(overlays, p, id),
                   !.entry = p \in DOMAIN overlays]

DragStop(p, id, px) ==
    /\ Displayed(St, p)
    /\ nextId' = nextId
    /\ Mutate(updateOverlay(overlays, p, id,
                            DragPartial(LayoutSize(pageSizes, p), px)),
              [UpdateEv("drag", p, id) EXCEPT !.px = px],
              TrackUpdate(p, id))

EditText(p, id, value) ==
    /\ Displayed(St, p)
    /\ nextId' = nextId
    /\ Mutate(updateOverlay(overlays, p, id, [text |-> value]),
              UpdateEv("editText", p, id), TrackUpdate(p, id))

EditColor(p, id, value) ==
    /\ Displayed(St, p)
    /\ nextId' = nextId
    /\ Mutate(updateOverlay(overlays, p, id, [color |-> value]),
              UpdateEv("editColor", p, id), TrackUpdate(p, id))

(* an input that takes any number                                         *)
RangeValueAny(v) == v

(* <input type="range" min={8} max={72} step={1}>: the value the element  *)
(* holds, and hands to onChange, after an attempt to set it to v          *)
RangeValue(v) == IMax(8, IMin(72, v))

EditFontSize(p, id, value) ==
    /\ Displayed(St, p)
    /\ nextId' = nextId
    /\ Mutate(updateOverlay(overlays, p, id, [fontSize |-> RangeValue(value)]),
              UpdateEv("editFontSize", p, id), TrackUpdate(p, id))

RemoveOverlay(p, id) ==
    /\ Displayed(St, p)
    /\ nextId' = nextId
    /\ Mutate(removeOverlay(overlays, p, id),
              UpdateEv("remove", p, id), TrackRemove(p, id))

----------------------------------------------------------------------------
(* handleExport *)

(* the canvas 2d context's fillStyle read back after assigning a colour:  *)
(* an opaque colour serialises as "#rrggbb", a translucent one as         *)
(* "rgba(r, g, b, a)"; an unparsable string leaves the default "#000000"  *)
CssColor(color) ==
    IF color = "#111827" THEN [valid |-> TRUE, rgb |-> <<17, 24, 39>>, opaque |-> TRUE]
    ELSE IF color = "#ff0000" THEN [valid |-> TRUE, rgb |-> <<255, 0, 0>>, opaque |-> TRUE]
    ELSE [valid |-> FALSE, rgb |-> <<0, 0, 0>>, opaque |-> TRUE]

FillStyle(color) ==
    LET c == CssColor(color)
    IN  IF ~c.valid THEN [form |-> "hex", rgb |-> <<0, 0, 0>>]
        ELSE IF c.opaque THEN [form |-> "hex", rgb |-> c.rgb]
        ELSE [form |-> "rgba", rgb |-> c.rgb]

(* the regular expression matches only the rgb( / rgba( form *)
cssColorToRgb01(color) ==
    LET computed == FillStyle(color)
        ch(v) == Rat(IMin(255, IMax(0, v)), 255)
    IN  IF computed.form # "rgba" THEN <<RInt(0), RInt(0), RInt(0)>>
        ELSE <<ch(computed.rgb[1]), ch(computed.rgb[2]), ch(computed.rgb[3])>>

XPdf(o, pageWidth) == RMul(o.x, RInt(pageWidth))

(* the inversion alone, without lowering the baseline by the font size   *)
YPdfNoBaseline(o, pageHeight) ==
    RSub(RInt(pageHeight), RMul(o.y, RInt(pageHeight)))

YPdf(o, pageHeight) ==
    RSub(RSub(RInt(pageHeight), RMul(o.y, RInt(pageHeight))), RInt(o.fontSize))

DrawText(i, o, size) ==
    [page |-> i, text |-> o.text, x |-> XPdf(o, size.width),
     y |-> YPdf(o, size.height), size |-> o.fontSize,
     color |-> cssColorToRgb01(o.color)]

(* the page loop and the item loop of handleExport, from page i on *)
RECURSIVE DrawsFrom(_, _, _)
DrawsFrom(ov, pages, i) ==
    IF i >= Len(pages) THEN <<>>
    ELSE LET items == PageItems(ov, i)
         IN  [k \in 1 .. Len(items) |-> DrawText(i, items[k], pages[i + 1])]
             \o DrawsFrom(ov, pages, i + 1)

ExportAlert(by) == [Ev(by) EXCEPT !.alerts = <<"Failed to export PDF">>]

(* the Export button is enabled when pdfArrayBuffer is set; the handler   *)
(* returns at once when exportArrayBuffer is not; quiet records that no   *)
(* upload was in flight at the click, url the pdfUrl of the click         *)
ExportClick ==
    /\ pdfArrayBuffer # Null
    /\ LET s1 == IF exportArrayBuffer = Null THEN St
                 ELSE [St EXCEPT !.exports = @ (+)
                          One([bytes |-> exportArrayBuffer, ov |-> overlays,
                               pc |-> "load", draws |-> <<>>,
                               quiet |-> uploads = EmptyBag,
                               url |-> pdfUrl])]
       IN  /\ Step(s1, {}, [Ev("exportClick") EXCEPT
                               !.silent = (exportArrayBuffer = Null)])
           /\ Ghosts(s1, {})

(* an abort that still hands the user what was written so far            *)
ExportAbortPartial(by, t) ==
    LET s1 == [St EXCEPT !.exports = @ (-) One(t)]
    IN  /\ Step(s1, {}, [ExportAlert(by) EXCEPT !.download =
                <<[name |-> "annotated.pdf", type |-> "application/pdf",
                   bytes |-> t.bytes, ov |-> t.ov, draws |-> t.draws,
                   quiet |-> t.quiet, url |-> t.url]>>])
        /\ Ghosts(s1, {})

ExportAbort(by, t) ==
    LET s1 == [St EXCEPT !.exports = @ (-) One(t)]
    IN  /\ Step(s1, {}, ExportAlert(by))
        /\ Ghosts(s1, {})

ExportAdvance(by, t, t2) ==
    LET s1 == [St EXCEPT !.exports = (@ (-) One(t)) (+) One(t2)]
    IN  /\ Step(s1, {}, Ev(by))
        /\ Ghosts(s1, {})

ExportLoadOk(t) ==
    /\ BagIn(t, exports) /\ t.pc = "load"
    /\ ExportAdvance("exportLoadOk", t, [t EXCEPT !.pc = "font"])

ExportLoadFail(t) ==
    /\ BagIn(t, exports) /\ t.pc = "load"
    /\ ExportAbort("exportLoadFail", t)

(* embedFont resolves; every overlay is drawn; save is awaited *)
ExportDrawOk(t) ==
    /\ BagIn(t, exports) /\ t.pc = "font"
    /\ ExportAdvance("exportDrawOk", t,
           [t EXCEPT !.pc = "save",
                     !.draws = DrawsFrom(t.ov, DocPages(t.bytes), 0)])

(* embedFont rejects, or widthOfTextAtSize / drawText throws *)
ExportDrawFail(t) ==
    /\ BagIn(t, exports) /\ t.pc = "font"
    /\ ExportAbort("exportDrawFail", t)

ExportSaveOk(t) ==
    /\ BagIn(t, exports) /\ t.pc = "save"
    /\ LET s1 == [St EXCEPT !.exports = @ (-) One(t)]
       IN  /\ Step(s1, {}, [Ev("exportSaveOk") EXCEPT !.download =
                   <<[name |-> "annotated.pdf", type |-> "application/pdf",
                      bytes |-> t.bytes, ov |-> t.ov, draws |-> t.draws,
                   quiet |-> t.quiet, url |-> t.url]>>])
           /\ Ghosts(s1, {})

ExportSaveFail(t) ==
    /\ BagIn(t, exports) /\ t.pc = "save"
    /\ ExportAbort("exportSaveFail", t)

----------------------------------------------------------------------------

Ids == 1 .. MaxIds

UploadSteps ==
    \/ \E type \in FileTypes : SelectRejected(type)
    \/ \E type \in FileTypes : SelectFile(type)
    \/ \E t \in BagToSet(uploads), u \in Urls : UploadResponseOk(t, u)
    \/ \E t \in BagToSet(uploads) : UploadFetchOk(t)

UploadFaults ==
    \/ \E t \in BagToSet(uploads) : UploadResponseFail(t)
    \/ \E t \in BagToSet(uploads) : UploadFetchFail(t)

UrlSteps ==
    \/ NavCommit
    \/ \E u \in BagToSet(urlLoads) : UrlFetchOk(u)

UrlFaults == \E u \in BagToSet(urlLoads) : UrlFetchFail(u)

LoadSteps ==
    \/ \E l \in BagToSet(loads) : LoadOpenOk(l)
    \/ \E l \in BagToSet(loads) : LoadSizeOk(l)
    \/ \E l \in BagToSet(loads) : LoadPaintOk(l)

LoadFaults ==
    \/ \E l \in BagToSet(loads) : LoadOpenFail(l)
    \/ \E l \in BagToSet(loads) : LoadSizeFail(l)
    \/ \E l \in BagToSet(loads) : LoadPaintFail(l)

ExportSteps ==
    \/ ExportClick
    \/ \E t \in BagToSet(exports) : ExportLoadOk(t)
    \/ \E t \in BagToSet(exports) : ExportDrawOk(t)
    \/ \E t \in BagToSet(exports) : ExportSaveOk(t)

ExportFaults ==
    \/ \E t \in BagToSet(exports) : ExportLoadFail(t)
    \/ \E t \in BagToSet(exports) : ExportDrawFail(t)
    \/ \E t \in BagToSet(exports) : ExportSaveFail(t)

EditSteps ==
    \/ \E p \in PageIdx : AddTextOverlay(p)
    \/ \E p \in PageIdx, id \in Ids, px \in DragPx : id < nextId /\ DragStop(p, id, px)
    \/ \E p \in PageIdx, id \in Ids, v \in TextInputs : id < nextId /\ EditText(p, id, v)
    \/ \E p \in PageIdx, id \in Ids, v \in ColorInputs : id < nextId /\ EditColor(p, id, v)
    \/ \E p \in PageIdx, id \in Ids, v \in FontSizeInputs : id < nextId /\ EditFontSize(p, id, v)
    \/ \E p \in PageIdx, id \in Ids : id < nextId /\ RemoveOverlay(p, id)

AddOnce == nextId = 1 /\ AddTextOverlay(0)

(* The rendering pipeline with its faults: documents arrive by upload and *)
(* by ?file=, the user places at most one overlay, on the first page      *)
Next ==
    \/ UploadSteps
    \/ UploadFaults
    \/ UrlFaults
    \/ UrlSteps
    \/ LoadSteps
    \/ LoadFaults
    \/ AddOnce

Spec == Init /\ [][Next]_vars

AddOnePage == nextId = 1 /\ \E p \in PageIdx : AddTextOverlay(p)

(* Export with its faults, for documents that arrive by upload and by     *)
(* ?file=, the user placing at most one overlay, on any displayed page    *)
NextExport ==
    \/ UploadSteps
    \/ UrlSteps
    \/ LoadSteps
    \/ ExportSteps
    \/ ExportFaults
    \/ AddOnePage

SpecExport == Init /\ [][NextExport]_vars

(* the user uploads one document, stored at u *)
UploadOne(u) ==
    \/ pdfUrl = Null /\ uploads = EmptyBag /\ SelectFile("application/pdf")
    \/ \E t \in BagToSet(uploads) : UploadResponseOk(t, u)
    \/ \E t \in BagToSet(uploads) : UploadFetchOk(t)

(* One uploaded one-page document, edited with every overlay handler and  *)
(* reloaded                                                               *)
NextEdit ==
    \/ UploadOne("b.pdf")
    \/ UrlSteps
    \/ LoadSteps
    \/ param # Null /\ Reload(param)
    \/ EditSteps

SpecEdit == InitWith(Null) /\ [][NextEdit]_vars

(* One uploaded two-page document whose overlays are placed, dragged to   *)
(* the page corners, resized and emptied of their text while no export    *)
(* is in flight, and exported                                             *)
NextDraw ==
    \/ UploadOne("a.pdf")
    \/ NavCommit
    \/ LoadSteps
    \/ \E p \in PageIdx : exports = EmptyBag /\ AddTextOverlay(p)
    \/ \E p \in PageIdx, id \in Ids, px \in {<<0, 0>>, <<2000, 1200>>} :
          exports = EmptyBag /\ id < nextId /\ HasItem(overlays, p, id) /\ DragStop(p, id, px)
    \/ \E p \in PageIdx, id \in Ids, v \in FontSizeInputs :
          exports = EmptyBag /\ id < nextId /\ HasItem(overlays, p, id)
          /\ EditFontSize(p, id, v)
    \/ \E p \in PageIdx, id \in Ids, v \in TextInputs :
          exports = EmptyBag /\ id < nextId /\ HasItem(overlays, p, id)
          /\ EditText(p, id, v)
    \/ ExportSteps
    \/ ExportFaults

SpecDraw == InitWith(Null) /\ [][NextDraw]_vars

(* Documents that come and go: uploads one at a time, ?file= and reloads, *)
(* with overlays added to the first page and removed                      *)
NextPersist ==
    \/ uploads = EmptyBag /\ SelectFile("application/pdf")
    \/ \E t \in BagToSet(uploads), u \in Urls : UploadResponseOk(t, u)
    \/ \E t \in BagToSet(uploads) : UploadFetchOk(t)
    \/ UrlSteps
    \/ LoadSteps
    \/ \E p \in Urls \cup {Null} : Reload(p)
    \/ AddTextOverlay(0)
    \/ \E p \in PageIdx, id \in Ids :
          id < nextId /\ HasItem(overlays, p, id) /\ RemoveOverlay(p, id)

SpecPersist == Init /\ [][NextPersist]_vars

(* Files are selected and uploaded, and the endpoint is also called by    *)
(* other clients                                                          *)
NextUpload ==
    \/ \E type \in FileTypes : SelectRejected(type)
    \/ uploads = EmptyBag /\ SelectFile("application/pdf")
    \/ \E t \in BagToSet(uploads), u \in Urls : UploadResponseOk(t, u)
    \/ \E t \in BagToSet(uploads) : UploadFetchOk(t)
    \/ UploadFaults
    \/ NavCommit
    \/ LoadSteps
    \/ AddOnce
    \/ \E file \in Requests, stores \in BOOLEAN, u \in Urls :
          EndpointRequest(file, stores, u)

SpecUpload == Init /\ [][NextUpload]_vars

(* The coordinate conversion on its own: a normalized position, given or  *)
(* stored by a drag that stopped at a pixel position, is laid out on a    *)
(* page and dropped where it was laid out                                 *)
RoundSizes == {Size(3, 7), Size(100, 150), Size(200, 255)}
Normalized ==
    {[x |-> Rat(m, 256), y |-> Rat(m, 512)] : m \in 128 .. 255}
    \cup {[x |-> RInt(0), y |-> RInt(1)]}
PixelInputs == {<<k, 2 * k + 1>> : k \in 0 .. 60}

Trip(by, size, px, n, at, back) ==
    [Ev(by) EXCEPT !.trip = <<[size |-> size, px |-> px, n |-> n,
                               at |-> at, back |-> back]>>]

InitRound ==
    \E size \in RoundSizes :
        \/ \E n \in Normalized :
              InitAt(Null, Trip("normalized", size, <<>>, <<n>>, <<>>, <<>>))
        \/ \E px \in PixelInputs :
              InitAt(Null, Trip("pixel", size, <<px>>, <<>>, <<>>, <<>>))

Rest ==
    <<uploading, pdfUrl, pdfArrayBuffer, exportArrayBuffer, pdfDoc,
      numPages, pageSizes, overlays, rendering, painted, param, nav, ls,
      uploads, urlLoads, loads, exports, nextId, issued, lastMut, track>>

(* a drag stops at the pixel position: the stored normalized position *)
StopAtPixel ==
    /\ ev.by = "pixel"
    /\ LET t == ev.trip[1]
       IN  ev' = Trip("normalized", t.size, t.px,
                      <<DragPartial(t.size, t.px[1])>>, <<>>, <<>>)
    /\ UNCHANGED Rest

LayOut ==
    /\ ev.by = "normalized"
    /\ LET t == ev.trip[1]
       IN  ev' = Trip("layout", t.size, t.px, t.n,
                      <<LayoutPosition(t.size, t.n[1])>>, <<>>)
    /\ UNCHANGED Rest

DropInPlace ==
    /\ ev.by = "layout"
    /\ LET t == ev.trip[1]
       IN  ev' = Trip("drop", t.size, t.px, t.n, t.at,
                      <<DragPartialAt(t.size, t.at[1].left, t.at[1].top)>>)
    /\ UNCHANGED Rest

NextRound == StopAtPixel \/ LayOut \/ DropInPlace

SpecRound == InitRound /\ [][NextRound]_vars

(* The three functions of the overlay collection on their own: a         *)
(* collection on two pages, given or returned by an earlier call, is      *)
(* handed to addTextOverlay, updateOverlay or removeOverlay               *)
CallIds == 1 .. 4
Partials == {[x |-> RInt(0), y |-> RInt(1)]}
Collections ==
    {NoOverlays,
     WithPage(WithPage(NoOverlays, 0, <<NewOverlay(1, <<>>, 0),
                                        NewOverlay(2, <<>>, 0)>>),
              1, <<NewOverlay(3, <<>>, 1)>>)}

Call(by, p, id, returned, given) ==
    [Ev(by) EXCEPT !.page = p, !.id = id, !.call = <<returned, given>>]

InitCalls ==
    \E ov \in Collections : InitAt(Null, Call("given", -1, -1, ov, ov))

Held == ev.call[1]
Given == ev.call[2]

(* crypto.randomUUID(): an id that no item of the collection has *)
CallAdd(p, id) ==
    /\ id \notin {o.id : o \in AllItems(Held)}
    /\ ev' = Call("addTextOverlay", p, id,
                  addTextOverlay(Held, p, NewOverlay(id, <<>>, p)), Held)
    /\ UNCHANGED Rest

CallUpdate(p, id, partial) ==
    /\ ev' = Call("updateOverlay", p, id, updateOverlay(Held, p, id, partial),
                  Held)
    /\ UNCHANGED Rest

CallRemove(p, id) ==
    /\ ev' = Call("removeOverlay", p, id, removeOverlay(Held, p, id), Held)
    /\ UNCHANGED Rest

NextCalls ==
    \/ \E p \in PageIdx, id \in CallIds : CallAdd(p, id)
    \/ \E p \in PageIdx, id \in CallIds, partial \in Partials :
          CallUpdate(p, id, partial)
    \/ \E p \in PageIdx, id \in CallIds : CallRemove(p, id)

SpecCalls == InitCalls /\ [][NextCalls]_vars

(* Uploads that may overlap, from an address without ?file= *)
NextOverlap ==
    \/ UploadSteps
    \/ UrlSteps
    \/ LoadSteps

SpecOverlap == InitWith(Null) /\ [][NextOverlap]_vars

(* localStorage is written by something other than the editor: the       *)
(* record of a document becomes a text that is not JSON                   *)
StorageCorrupted(u) ==
    /\ getOverlaysStorageKey(u) \in DOMAIN ls
    /\ Install([St EXCEPT !.ls[getOverlaysStorageKey(u)] = Garbage])
    /\ ev' = Ev("storageCorrupted")
    /\ Ghosts(St, {})

(* One uploaded document whose stored record is corrupted between reloads *)
NextCorrupt ==
    \/ UploadOne("b.pdf")
    \/ UrlSteps
    \/ LoadSteps
    \/ param # Null /\ Reload(param)
    \/ \E u \in Urls : StorageCorrupted(u)
    \/ AddTextOverlay(0)
    \/ \E id \in Ids : id < nextId /\ DragStop(0, id, <<0, 0>>)
    \/ \E id \in Ids : id < nextId /\ RemoveOverlay(0, id)

SpecCorrupt == InitWith(Null) /\ [][NextCorrupt]_vars

(* A one-page document is uploaded and overlays are placed on it; a       *)
(* second file is uploaded before the address has followed the first, and *)
(* its bytes do not arrive, so that the handlers of the page still        *)
(* displayed run against the second document's overlays                   *)
NextRace ==
    \/ /\ uploads = EmptyBag
       /\ pdfUrl = Null \/ (pdfDoc = "b.pdf" /\ param = Null /\ "a.pdf" \notin issued)
       /\ SelectFile("application/pdf")
    \/ \E t \in BagToSet(uploads) :
          param = Null
          /\ UploadResponseOk(t, IF pdfUrl = Null THEN "b.pdf" ELSE "a.pdf")
    \/ \E t \in BagToSet(uploads) : pdfUrl = "b.pdf" /\ UploadFetchOk(t)
    \/ \E t \in BagToSet(uploads) : pdfUrl = "a.pdf" /\ UploadFetchFail(t)
    \/ NavCommit
    \/ LoadSteps
    \/ AddTextOverlay(0)
    \/ \E id \in Ids : id < nextId /\ DragStop(0, id, <<0, 0>>)
    \/ \E id \in Ids : id < nextId /\ RemoveOverlay(0, id)
    \/ \E id \in Ids, v \in RangeAttempts : id < nextId /\ EditFontSize(0, id, v)

SpecRace == InitWith(Null) /\ [][NextRace]_vars

(**************************************************************************)
(* Properties                                                             *)
(**************************************************************************)

InUnit(r) == RLeq(RInt(0), r) /\ RLeq(r, RInt(1))

ItemAt(ov, p, id) ==
    LET items == PageItems(ov, p)
    IN  items[CHOOSE k \in 1 .. Len(items) : items[k].id = id]

(* C1: once a document has been loaded successfully and the Export        *)
(* control is enabled, a press of Export is never a silent no-op: it      *)
(* starts an export, which ends in a download of a .pdf file or in the    *)
(* error 'Failed to export PDF', whether the document came from an upload *)
(* or from the ?file= parameter                                           *)
C1_ExportNeverSilent ==
    (ev.by = "exportClick" /\ pdfDoc # Null /\ pdfDoc = pdfArrayBuffer
        /\ ~rendering)
    => ~ev.silent

(* C2: the x and y of every overlay item on every page lie in [0, 1]; a   *)
(* drag that stops left of and above the surface, or right of and below   *)
(* it, stores a value in [0, 1], and a drop at pixel (0, 0) stores (0, 0) *)
C2_NormalizedInUnit ==
    /\ \A o \in AllItems(overlays) : InUnit(o.x) /\ InUnit(o.y)
    /\ (ev.by = "drag" /\ ~ev.absent) =>
          LET o == ItemAt(overlays, ev.page, ev.id)
          IN  /\ InUnit(o.x) /\ InUnit(o.y)
              /\ ev.px = <<0, 0>> => o.x = <<0, 1>> /\ o.y = <<0, 1>>
              /\ ev.px = <<-5, -7>> => o.x = <<0, 1>> /\ o.y = <<0, 1>>
              /\ ev.px = <<2000, 1200>> => o.x = <<1, 1>> /\ o.y = <<1, 1>>

C2_DraggedOutside ==
    /\ ev.by = "drag" /\ ~ev.absent
    /\ ev.px = <<2000, 1200>>
    /\ ItemAt(overlays, ev.page, ev.id).x = <<1, 1>>

(* C3: export draws every overlay item (x, y, fontSize) of a page with    *)
(* writer dimensions (W, H) at (x*W, H - y*H - fontSize), unclamped:      *)
(* y = 0 gives H - fontSize, y = 1 gives -fontSize, and x = y = 1/2 with  *)
(* fontSize 16 on a (595, 842) page gives (595/2, 405)                    *)
C3_DrawPosition ==
    ev.download # <<>> =>
        LET d == ev.download[1]
            pages == DocPages(d.bytes)
            n(i) == IF i < Len(pages) THEN Len(PageItems(d.ov, i)) ELSE 0
        IN  /\ Len(d.draws) = n(0) + n(1)
            /\ \A i \in PageIdx, k \in 1 .. MaxIds :
                  k <= n(i) =>
                    LET o == PageItems(d.ov, i)[k]
                        W == pages[i + 1].width
                        H == pages[i + 1].height
                    IN  \E j \in 1 .. Len(d.draws) :
                          LET w == d.draws[j]
                          IN  /\ w.page = i
                              /\ w.text = o.text
                              /\ w.size = o.fontSize
                              /\ w.x[1] * o.x[2] = o.x[1] * W * w.x[2]
                              /\ w.y[1] * o.y[2] =
                                   (H * o.y[2] - o.y[1] * H
                                      - o.fontSize * o.y[2]) * w.y[2]
                              /\ o.y = <<0, 1>> => w.y = <<H - o.fontSize, 1>>
                              /\ o.y = <<1, 1>> => w.y = <<0 - o.fontSize, 1>>
                              /\ (W = 595 /\ H = 842 /\ o.x = <<1, 2>>
                                    /\ o.y = <<1, 2>> /\ o.fontSize = 16)
                                 => w.x = <<595, 2>> /\ w.y = <<405, 1>>

C3_HalfPageSixteen ==
    /\ ev.download # <<>>
    /\ \E j \in 1 .. Len(ev.download[1].draws) :
          LET w == ev.download[1].draws[j]
          IN  w.page = 0 /\ w.size = 16 /\ w.x = <<595, 2>> /\ w.y = <<405, 1>>

C3_BelowPage ==
    /\ ev.download # <<>>
    /\ \E j \in 1 .. Len(ev.download[1].draws) :
          ev.download[1].draws[j].y[1] < 0

(* C4: whenever a document under which overlays were mutated is current,  *)
(* also after the editor has left it for another document or has been     *)
(* reloaded, the overlay collection equals, page by page and item by item *)
(* in order, the collection as it was after the last mutation made under  *)
(* that document                                                          *)
C4_PersistenceRoundTrip ==
    (pdfUrl # Null /\ lastMut[pdfUrl] # <<>>) =>
        \A p \in PageIdx :
            PageItems(overlays, p) = PageItems(lastMut[pdfUrl][1], p)

C4_RestoredAfterReload ==
    /\ ev.by = "reload"
    /\ pdfUrl = "a.pdf"
    /\ lastMut[pdfUrl] # <<>>
    /\ Len(PageItems(overlays, 0)) = 1
    /\ PageItems(overlays, 1) = <<>>

C4_RestoredAfterSwitch ==
    /\ ev.by = "uploadResponseOk"
    /\ pdfUrl = "a.pdf"
    /\ lastMut["a.pdf"] # <<>>
    /\ Len(PageItems(overlays, 0)) = 1

(* C5: addTextOverlay(p) creating item i, then any number of              *)
(* updateOverlay(p, i.id, ...) calls, then removeOverlay(p, i.id), leaves *)
(* the sequence of page p exactly as it was before the add                *)
C5_IdentityStability ==
    (track # <<>> /\ track[1].removed) =>
        PageItems(overlays, track[1].page) = track[1].before

C5_AddedUpdatedRemoved ==
    /\ track # <<>>
    /\ track[1].removed /\ track[1].updated
    /\ track[1].before # <<>>
    /\ ev.by = "remove" /\ ~ev.absent

UpdateOrRemove == {"drag", "editText", "editColor", "editFontSize", "remove"}

C6_AbsentOnHeldPage ==
    /\ ev.by \in UpdateOrRemove
    /\ ev.absent /\ ev.entry
    /\ PageItems(overlays, ev.page) # <<>>

(* C7: once a newer load has started, no later completion of the          *)
(* superseded load has any effect: it does not set the document, the page *)
(* count or the page sizes, paints no page surface, does not change the   *)
(* rendering flag and raises no user-visible error                        *)
C7_StaleCompletionDiscarded ==
    [][ev'.stale =>
          /\ pdfDoc' = pdfDoc
          /\ numPages' = numPages
          /\ pageSizes' = pageSizes
          /\ painted' = painted
          /\ rendering' = rendering
          /\ ev'.alerts = <<>>]_vars

(* C8: when painting page k of an n-page document fails, the failure is   *)
(* only logged: no user-visible render failure is raised and the paint    *)
(* loop goes on to the pages after k                                      *)
C8_PaintFailureOnlyLogged ==
    (ev.by = "loadPaintFail" /\ ~ev.stale) =>
        /\ ev.alerts = <<>>
        /\ ev.page + 1 < numPages =>
              \E l \in BagToSet(loads) :
                  ~l.cancelled /\ l.pc = "paint" /\ l.i = ev.page + 2

LastOverlays(u) == IF lastMut[u] = <<>> THEN NoOverlays ELSE lastMut[u][1]

(* C9: when opening a newly supplied document's bytes fails, exactly one  *)
(* rendering error is raised and what is displayed stays the previous     *)
(* document: its pages, page count and page sizes, with that document's   *)
(* overlays shown on them (no overlay having been edited since the new    *)
(* document was supplied)                                                 *)
C9_FailedOpenKeepsDisplay ==
    (/\ ev.by = "loadOpenFail" /\ ~ev.stale
     /\ pdfDoc # Null
     /\ pdfUrl = pdfDoc \/ lastMut[pdfUrl] = <<>>) =>
        /\ ev.alerts = <<"Failed to render PDF">>
        /\ numPages = Len(DocPages(pdfDoc))
        /\ \A p \in PageIdx :
              PageItems(overlays, p) = PageItems(LastOverlays(pdfDoc), p)

ExportFailures == {"exportLoadFail", "exportDrawFail", "exportSaveFail"}

(* C10: an export that fails while loading the source bytes, embedding    *)
(* the font, drawing or saving raises exactly one error, triggers no      *)
(* download, and leaves the overlay collection and the stored export      *)
(* bytes as they were                                                     *)
C10_ExportAllOrNothing ==
    [][ev'.by \in ExportFailures =>
          /\ ev'.alerts = <<"Failed to export PDF">>
          /\ ev'.download = <<>>
          /\ overlays' = overlays
          /\ exportArrayBuffer' = exportArrayBuffer
          /\ ls' = ls]_vars

C10_FailedAfterDraws ==
    /\ ev.by = "exportSaveFail"
    /\ AllItems(overlays) # {}
    /\ exportArrayBuffer # Null

(* C11: a successful export issues exactly one text-draw per overlay item *)
(* of the collection, pages in increasing page index and the items of a   *)
(* page in stored order; an item whose text is empty is issued too, and   *)
(* no item is skipped or drawn twice                                      *)
C11_OneDrawPerItem ==
    ev.download # <<>> =>
        LET d == ev.download[1]
            n0 == Len(PageItems(d.ov, 0))
            n1 == Len(PageItems(d.ov, 1))
        IN  /\ Len(d.draws) = n0 + n1
            /\ \A k \in 1 .. n0 :
                  /\ d.draws[k].page = 0
                  /\ d.draws[k].text = PageItems(d.ov, 0)[k].text
                  /\ d.draws[k].size = PageItems(d.ov, 0)[k].fontSize
            /\ \A k \in 1 .. n1 :
                  /\ d.draws[n0 + k].page = 1
                  /\ d.draws[n0 + k].text = PageItems(d.ov, 1)[k].text
                  /\ d.draws[n0 + k].size = PageItems(d.ov, 1)[k].fontSize

(* C12: the draw of every overlay whose colour is a valid CSS colour      *)
(* string, the picker's '#rrggbb' values and the default '#111827'        *)
(* included, uses that colour's red, green and blue components divided by *)
(* 255; only an unresolvable string yields black                          *)
C12_ColourResolved ==
    ev.download # <<>> =>
        LET d == ev.download[1]
        IN  \A i \in PageIdx :
              i < Len(DocPages(d.bytes)) =>
                \A k \in 1 .. Len(PageItems(d.ov, i)) :
                  LET o == PageItems(d.ov, i)[k]
                  IN  \E j \in 1 .. Len(d.draws) :
                        /\ d.draws[j].page = i
                        /\ d.draws[j].text = o.text
                        /\ o.color = "#111827" =>
                             d.draws[j].color =
                               <<Rat(17, 255), Rat(24, 255), Rat(39, 255)>>
                        /\ o.color = "#ff0000" =>
                             d.draws[j].color = <<RInt(1), RInt(0), RInt(0)>>

(* C13: addTextOverlay(p) appends, at the end of the sequence of page p,  *)
(* exactly one new item with text 'New Text', x = y = 1/2 and fontSize =  *)
(* clamp(round(0.02 * native width of page p), 12, 24): 12 for a width of *)
(* 595, 16 for 800, 24 for 1500; the items already on page p keep their   *)
(* values and order                                                       *)
C13_AddAppendsDefault ==
    (ev.by = "add" /\ track # <<>>) =>
        LET items == PageItems(overlays, ev.page)
            W == DocPages(pdfDoc)[ev.page + 1].width
            o == items[Len(items)]
        IN  /\ Len(items) = Len(track[1].before) + 1
            /\ SubSeq(items, 1, Len(items) - 1) = track[1].before
            /\ o.id = ev.id
            /\ o.text = "New Text"
            /\ o.x = <<1, 2>> /\ o.y = <<1, 2>>
            /\ W = 595 => o.fontSize = 12
            /\ W = 800 => o.fontSize = 16
            /\ W = 1500 => o.fontSize = 24

(* C14: the fontSize of every overlay item lies in 8..72: creation yields *)
(* a value in 12..24 and a font-size edit stores a value in 8..72,        *)
(* whatever value the edit was attempted with                             *)
C14_FontSizeInRange ==
    /\ \A o \in AllItems(overlays) : o.fontSize >= 8 /\ o.fontSize <= 72
    /\ (ev.by = "add") =>
          LET f == ItemAt(overlays, ev.page, ev.id).fontSize
          IN  f >= 12 /\ f <= 24
    /\ (ev.by = "editFontSize" /\ ~ev.absent) =>
          LET f == ItemAt(overlays, ev.page, ev.id).fontSize
          IN  f >= 8 /\ f <= 72

C14_EditedBeyondRange ==
    /\ ev.by = "editFontSize" /\ ~ev.absent
    /\ ItemAt(overlays, ev.page, ev.id).fontSize = 72

(* C15: a file whose declared type is not PDF is rejected by the client   *)
(* with no upload request and with the document URL, the render bytes,    *)
(* the export bytes and the overlays unchanged; the endpoint answers a    *)
(* request with no file or a non-PDF content type with 400 and stores     *)
(* nothing, and answers a storage failure with 500, an error body and no  *)
(* URL                                                                    *)
KeysOf(body) == {body[k][1] : k \in 1 .. Len(body)}

C15_EndpointRefusedPng ==
    /\ ev.by = "post"
    /\ ev.response[1].file = FileOf("image/png")
    /\ ev.response[1].status = 400

(* C16: an export never overlaps a document switch: no export completes   *)
(* with a download after an upload that was started during the export has *)
(* replaced the document (no upload was in flight at the click, and the   *)
(* export bytes in the state are no longer the ones the export took)      *)
C16_ExportExcludesSwitch ==
    (ev.download # <<>> /\ ev.download[1].quiet) =>
        exportArrayBuffer = ev.download[1].bytes

(* C17: a stored record that cannot be parsed when the document is        *)
(* restored is not fatal: the overlay collection becomes empty and no     *)
(* error is shown; every later add, update and remove takes effect and is *)
(* persisted under the document's key                                     *)
Unparsable(store, u) ==
    /\ u # Null
    /\ getOverlaysStorageKey(u) \in DOMAIN store
    /\ ~IsJson(store[getOverlaysStorageKey(u)])

Near(a, b) == RLeq(RScale(RSub(RMax(a, b), RMin(a, b)), PREC - 2), a)

C18_DroppedFromPixel ==
    /\ ev.by = "drop"
    /\ ev.trip[1].px # <<>>
    /\ ev.trip[1].n[1].x \notin {RInt(0), RInt(1), Half}
    /\ ev.trip[1].at[1].left # RInt(ev.trip[1].px[1][1])

(* C19: the record stored under a document's key holds only overlay items *)
(* created while that document was the current one, in every state and    *)
(* after every pass of the effects while an upload switches the document  *)
OwnIds(mut, u) ==
    IF mut[u] = <<>> THEN {} ELSE {o.id : o \in AllItems(mut[u][1])}

Isolated(store, mut) ==
    \A u \in Urls :
        LET key == getOverlaysStorageKey(u)
        IN  (key \in DOMAIN store /\ IsJson(store[key])) =>
                {o.id : o \in AllItems(JsonParse(store[key]))}
                    \subseteq OwnIds(mut, u)

C19_RecordsIsolated ==
    [][ /\ Isolated(ls', lastMut')
        /\ (ev'.by = "uploadResponseOk" /\ pdfUrl' # pdfUrl) =>
              LET passes == StoragePasses([St EXCEPT !.pdfUrl = pdfUrl'],
                                          {"pdfUrl"})
              IN  \A k \in 1 .. Len(passes) : Isolated(passes[k], lastMut) ]_vars

(* C20: whenever pages are displayed the page-size list has one entry per *)
(* displayed page and comes from the same load as the page count; a load  *)
(* that has been cancelled has published neither its page count nor its   *)
(* sizes (it is still waiting for its document to open)                   *)
C20_CountAndSizesTogether ==
    /\ (pdfDoc # Null /\ numPages > 0) =>
          /\ Len(pageSizes) = numPages
          /\ numPages = Len(DocPages(pdfDoc))
          /\ pageSizes = DocPages(pdfDoc)
    /\ \A l \in BagToSet(loads) : l.cancelled => l.pc = "open"

(* C21: addTextOverlay and drag-stop on page p happen only when the       *)
(* document displayed is the current one, its sizes are published and p   *)
(* is one of its pages; the size they use is the native size of page p of *)
(* that document, never the placeholder or another document's size        *)
C21_TruePageSizeOnly ==
    [][ (ev'.by \in {"add", "drag"}) =>
            /\ pdfDoc # Null /\ pdfDoc = pdfUrl
            /\ ev'.page < Len(DocPages(pdfDoc))
            /\ pageSizes = DocPages(pdfDoc)
            /\ LayoutSize(pageSizes, ev'.page) = DocPages(pdfDoc)[ev'.page + 1] ]_vars

(* C22: an export never mixes documents: whenever an export has drawn     *)
(* overlays, the bytes it loaded are those of the document that pdfUrl    *)
(* named when it was triggered, the document whose overlays it drew       *)
C22_ExportOneDocument ==
    (ev.download # <<>> /\ ev.download[1].draws # <<>>) =>
        ev.download[1].bytes = ev.download[1].url

(* C23: overlapping uploads settle consistently: once two uploads have    *)
(* both completed, pdfUrl, the render bytes, the export bytes and the     *)
(* overlay collection refer to one and the same upload; uploading is      *)
(* false only when no upload is in flight                                 *)
C23_UploadsSettle ==
    /\ (issued = Urls /\ uploads = EmptyBag /\ urlLoads = EmptyBag) =>
          /\ pdfArrayBuffer = pdfUrl
          /\ exportArrayBuffer = pdfUrl
          /\ overlays = RestoredOverlays(St, St)
    /\ ~uploading => uploads = EmptyBag

(* C24: an upload is not reverted: in the state that follows the answer   *)
(* of the upload endpoint, the current document URL is the URL of the     *)
(* uploaded document (the one whose bytes are being fetched), whatever    *)
(* ?file= named before; the two effects on pdfUrl and ?file= do not set   *)
(* it back                                                                *)
C24_UploadNotReverted ==
    [][ ev'.by = "uploadResponseOk" =>
            \A t \in BagToSet(uploads') : t.pc = "fetch" => pdfUrl' = t.url ]_vars

(* C25: the rendering flag is true exactly while a load that has not been *)
(* superseded is in progress, and there is at most one such load: when    *)
(* the last load has painted its last page or failed, the flag is false,  *)
(* whatever superseded loads are still finishing                          *)
Live(B) == {l \in BagToSet(B) : ~l.cancelled}

C25_RenderingFollowsLoad ==
    /\ rendering <=> Live(loads) # {}
    /\ Cardinality(Live(loads)) <= 1
    /\ \A l \in Live(loads) : CopiesIn(l, loads) = 1

C25_LastLoadDoneOlderPending ==
    /\ ev.by \in {"loadPaintOk", "loadOpenFail", "loadSizeFail", "loadPaintFail"}
    /\ ~ev.stale
    /\ ~rendering
    /\ loads # EmptyBag

(* C26: every page index that holds an item, in the overlay collection   *)
(* in memory and in the record stored for the current document, is a page *)
(* of the current document (0 .. pageCount - 1)                           *)
PagesUsed(ov) == {p \in PageIdx : PageItems(ov, p) # <<>>}

C26_PagesWithinDocument ==
    pdfUrl # Null =>
        LET pages == 0 .. (Len(DocPages(pdfUrl)) - 1)
            key == getOverlaysStorageKey(pdfUrl)
        IN  /\ PagesUsed(overlays) \subseteq pages
            /\ (key \in DOMAIN ls /\ IsJson(ls[key])) =>
                   PagesUsed(JsonParse(ls[key])) \subseteq pages

(* C27: addTextOverlay, updateOverlay and removeOverlay on page p leave   *)
(* the sequence of every other page as it was; addTextOverlay puts the    *)
(* new item after the items of page p, updateOverlay keeps the ids of     *)
(* page p in their order, and removeOverlay leaves the other ids of page  *)
(* p in their order                                                       *)
IdSeq(items) == [k \in 1 .. Len(items) |-> items[k].id]

C27_PageLocalStableOrder ==
    [][ LET p == ev'.page
            id == ev'.id
            before == IdSeq(PageItems(Given', p))
            after == IdSeq(PageItems(Held', p))
        IN  /\ Given' = Held
            /\ \A q \in PageIdx \ {p} : PageItems(Held', q) = PageItems(Given', q)
            /\ ev'.by = "addTextOverlay" => after = Append(before, id)
            /\ ev'.by = "updateOverlay" => after = before
            /\ ev'.by = "removeOverlay" =>
                  after = SelectSeq(before, LAMBDA i : i # id) ]_vars

C27_RemovedBetweenOthers ==
    /\ ev.by = "removeOverlay"
    /\ Len(PageItems(Given, ev.page)) = 3
    /\ PageItems(Given, ev.page)[2].id = ev.id
    /\ Len(PageItems(Held, ev.page)) = 2
    /\ PageItems(Held, 1 - ev.page) # <<>>

(* C28: a text, colour or font-size edit of an item changes that field    *)
(* only, a drag-stop changes x and y only, and neither changes any other  *)
(* item; no step other than a drag-stop of an item changes the x or y of  *)
(* an item that exists before and after it                                *)
Fields == {"id", "text", "x", "y", "fontSize", "color"}

Edited ==
    [editText |-> {"text"}, editColor |-> {"color"},
     editFontSize |-> {"fontSize"}, drag |-> {"x", "y"}]

ById(ov, id) == CHOOSE o \in AllItems(ov) : o.id = id

C28_EditsTouchOneField ==
    [][ /\ (ev'.by \in DOMAIN Edited /\ ~ev'.absent) =>
              /\ HasItem(overlays', ev'.page, ev'.id)
              /\ \A f \in Fields \ Edited[ev'.by] :
                    ItemAt(overlays', ev'.page, ev'.id)[f]
                        = ItemAt(overlays, ev'.page, ev'.id)[f]
              /\ \A o \in AllItems(overlays) :
                    o.id # ev'.id => o \in AllItems(overlays')
        /\ \A o \in AllItems(overlays) :
              (o.id \in {n.id : n \in AllItems(overlays')}
                  /\ ~(ev'.by = "drag" /\ ev'.id = o.id)) =>
                      /\ ById(overlays', o.id).x = o.x
                      /\ ById(overlays', o.id).y = o.y ]_vars

C28_EditedAfterDrag ==
    /\ ev.by \in {"editText", "editColor", "editFontSize"} /\ ~ev.absent
    /\ LET o == ItemAt(overlays, ev.page, ev.id)
       IN  /\ o.x = RInt(0) /\ o.y = RInt(0)
           /\ o.text = "" /\ o.color = "#ff0000"
    /\ Cardinality(AllItems(overlays)) = 2

====
